---- MODULE Spec2Model ----
(***************************************************************************)
(* Model of the BTP LLM GitHub pull analyzer (src/program): the paginated  *)
(* issue search, the concurrent conversation fetch, the two completion     *)
(* phases with their retry loop, and the emission of the report.           *)
(*                                                                         *)
(* One asyncio task is one record of ftasks (fetch phase) or ctasks        *)
(* (completion phases).  A task that awaits a response is resumed by the   *)
(* action that delivers the response; everything the coroutine does up to  *)
(* its next await is part of that action.  Upstream payloads are JSON      *)
(* values; a payload that lacks a key the code reads makes the code raise. *)
(***************************************************************************)
EXTENDS Integers, Sequences, FiniteSets, TLC

VARIABLES
    pc,                 \* position of main(): construct, search, searched, fetch, phase1, ..., done, failed
    error,              \* the exception that ended the run, or NoError
    access_token,       \* OpenAiProvider.access_token
    uaa_requests,       \* number of requests sent to the token endpoint
    template,           \* OpenAiConfiguration.data_template, the object get_completion copies
    page,               \* params['page'] of get_pull_requests
    pull_request_urls,  \* pull_request_urls of get_pull_requests / get_pull_request_pulls
    search_data,        \* data of get_pull_requests: the payload of the last page, or NoData
    search_status,      \* status code of the last answer of the search endpoint, or NoStatus
    session,            \* the open aiohttp.ClientSession, or NoSession
    sessions,           \* HTTP sessions opened so far by each operation (2: two or more)
    ftasks,             \* the get_pull_request_pull tasks of the fetch phase
    pulls,              \* result of get_pull_request_pulls
    message_groups,     \* message_groups of the running generate_*_report (insertion-ordered dict)
    ctasks,             \* the get_completion tasks of the running get_completions
    completions,        \* what the last get_completions returned
    log,                \* logger output: the ('invoking', g) and ('completed', g) lines
    endpoint_log,       \* completion endpoint: (request messages, content) of every 200 answer
    pulls_report,       \* result of generate_pulls_report
    stdout              \* what main() printed: <<>> or <<report>>

vars == <<pc, error, access_token, uaa_requests, template, page, pull_request_urls, search_data,
          search_status, session, sessions, ftasks, pulls, message_groups, ctasks,
          completions, log, endpoint_log, pulls_report, stdout>>

(***************************************************************************)
(* Bounds of the model.                                                    *)
(***************************************************************************)
MaxPulls == 2       \* at most this many items over all search pages
MaxRetries == 2     \* at most this many overloaded answers per completion call
MaxComments == 2    \* at most this many comments per comment stream

(***************************************************************************)
(* Configuration (the manifest) and the values upstreams answer with.      *)
(***************************************************************************)
grounding_prompt == "test-grounding-prompt"
pull_prompt == "test-pull-prompt"
overview_prompt == "test-overview-prompt"
data_template == [deployment_id |-> "gpt-4", messages |-> <<>>]

NoError == [type |-> "none"]
NoSession == "none"
NoToken == "none"
NoStatus == 0
NoPage == 0
NoData == [out_of_scope |-> TRUE]

\* The operations that send HTTP requests, and the count of the sessions each
\* has opened: 0, 1, or 2 for two or more.
Operations == {"search", "fetch", "phase1", "phase2"}
NoSessions == [op \in Operations |-> 0]
Opened(n) == IF n >= 2 THEN 2 ELSE n + 1
OpenSession(op) == [sessions EXCEPT ![op] = Opened(@)]

PullUrls == {"pull-1", "pull-2"}
IssueUrl(u) == IF u = "pull-1" THEN "issue-1" ELSE "issue-2"
CommentsUrl(u) == IF u = "pull-1" THEN "pull-1/comments" ELSE "pull-2/comments"
ReviewCommentsUrl(u) == IF u = "pull-1" THEN "pull-1/review" ELSE "pull-2/review"

StatusOk == 200
StatusOverloaded == 500
OtherStatuses == {400, 503}
SearchErrorStatuses == {403}

Range(s) == {s[i] : i \in DOMAIN s}

RECURSIVE SeqsUpTo(_, _)
SeqsUpTo(S, n) ==
    IF n = 0 THEN {<<>>}
    ELSE LET shorter == SeqsUpTo(S, n - 1)
         IN  shorter \cup {Append(s, x) : s \in {t \in shorter : Len(t) = n - 1}, x \in S}

(***************************************************************************)
(* ReportGenerator.__init__ -> OpenAiProvider.__init__ -> get_access_token *)
(***************************************************************************)
Tokens == {"mock-access-token"}
TokenPayloads == {[access_token |-> t] : t \in Tokens} \cup {[error |-> "unauthorized"]}

\* Mutant of Raise: the error is caught and what there is gets printed.
RaisePartial(err) ==
    /\ pc' = "failed"
    /\ error' = err
    /\ session' = NoSession
    /\ ftasks' = <<>>
    /\ stdout' = <<[prompts |-> [grounding |-> grounding_prompt, pull |-> pull_prompt,
                                 overview |-> overview_prompt],
                    summary |-> "", pulls |-> pulls_report]>>

\* Mutant of Raise: the session is not closed when the batch ends with an error.
RaiseLeavesSession(err) ==
    /\ pc' = "failed"
    /\ error' = err
    /\ UNCHANGED session
    /\ ftasks' = <<>>
    /\ UNCHANGED stdout

\* An exception nobody catches: the session's context manager closes it,
\* asyncio.run cancels the tasks, main() ends without printing.
Raise(err) ==
    /\ pc' = "failed"
    /\ error' = err
    /\ session' = NoSession
    /\ ftasks' = <<>>
    /\ UNCHANGED stdout

KeyError(k) == [type |-> "KeyError", key |-> k]
RuntimeError(status_code) == [type |-> "RuntimeError", status_code |-> status_code]

Construct ==
    /\ pc = "construct"
    /\ uaa_requests' = uaa_requests + 1
    /\ \E payload \in TokenPayloads :
         IF "access_token" \in DOMAIN payload
         THEN /\ access_token' = payload.access_token
              /\ pc' = "search"
              /\ page' = 1
              /\ UNCHANGED <<error, session, ftasks, stdout>>
         ELSE /\ Raise(KeyError("access_token"))
              /\ UNCHANGED <<access_token, page>>
    /\ UNCHANGED <<template, pull_request_urls, search_data, search_status, sessions,
                   pulls, message_groups, ctasks, completions, log, endpoint_log,
                   pulls_report>>

(***************************************************************************)
(* GitHubProvider.get_pull_requests: one action per page request.          *)
(***************************************************************************)
SearchItem(u) == [url |-> IssueUrl(u), pull_request |-> [url |-> u]]
IssueOnlyItem(u) == [url |-> IssueUrl(u)]
SearchItems == {SearchItem(u) : u \in PullUrls} \cup {IssueOnlyItem("pull-1")}

\* The answers the search endpoint can give to one page request when `room`
\* more items fit the bound: a page of items (possibly empty), a success
\* payload without a result list, or an error payload with an error status.
SearchResponses(room) ==
    {[status |-> StatusOk, data |-> [items |-> its]] : its \in SeqsUpTo(SearchItems, room)}
    \cup {[status |-> StatusOk, data |-> [total_count |-> 0]]}
    \cup {[status |-> st, data |-> [message |-> "API rate limit exceeded"]] :
            st \in SearchErrorStatuses}

\* Mutant of PageUrls: the url of the issue record is taken.
RECURSIVE PageIssueUrls(_)
PageIssueUrls(items) ==
    IF items = <<>> THEN <<>>
    ELSE <<Head(items).url>> \o PageIssueUrls(Tail(items))

\* The loop body of lines 59-68 over one page: the urls appended, in item order.
RECURSIVE PageUrls(_)
PageUrls(items) ==
    IF items = <<>> THEN <<>>
    ELSE <<Head(items).pull_request.url>> \o PageUrls(Tail(items))

ItemRaises(items) == \E i \in DOMAIN items : "pull_request" \notin DOMAIN items[i]

\* The first request of every task of get_all_pull_request_pulls: gather()
\* schedules the tasks, and each runs up to its first await (line 114).
\* awaiting: the url of the request in flight; pull_request and comments_json:
\* the payloads received so far (comments_json: one per get_comments call).
FetchTask(url) ==
    [url |-> url, awaiting |-> url, pull_request |-> <<>>, student_login |-> "",
     pull |-> <<>>, comments_json |-> <<>>]

StartFetch(urls) ==
    /\ pc' = "fetch"
    /\ page' = NoPage
    /\ search_data' = NoData
    /\ session' = "fetch"
    /\ sessions' = OpenSession("fetch")
    /\ ftasks' = [i \in DOMAIN urls |-> FetchTask(urls[i])]

\* Lines 50-70: one iteration of the loop. requests.get opens a session of its
\* own for the request and closes it before it returns.
SearchPage ==
    /\ pc = "search"
    /\ \E resp \in SearchResponses(MaxPulls - Len(pull_request_urls)) :
         /\ search_data' = resp.data
         /\ search_status' = resp.status
         /\ sessions' = OpenSession("search")
         /\ IF "items" \notin DOMAIN resp.data
            THEN /\ pc' = "searched"
                 /\ UNCHANGED <<pull_request_urls, page, error, session, ftasks, stdout>>
            ELSE IF Len(resp.data.items) = 0
            THEN /\ pc' = "searched"
                 /\ UNCHANGED <<pull_request_urls, page, error, session, ftasks, stdout>>
            ELSE IF ItemRaises(resp.data.items)
            THEN /\ Raise(KeyError("pull_request"))
                 /\ UNCHANGED <<pull_request_urls, page>>
            ELSE /\ pull_request_urls' = pull_request_urls \o PageUrls(resp.data.items)
                 /\ page' = page + 1
                 /\ UNCHANGED <<pc, error, session, ftasks, stdout>>
    /\ UNCHANGED <<access_token, uaa_requests, template, pulls, message_groups, ctasks, completions,
                   log, endpoint_log, pulls_report>>

\* Lines 72 and 161-170: get_pull_requests returns the urls; the session of
\* the fetch phase is opened and one task per url is started.
SearchReturn ==
    /\ pc = "searched"
    /\ StartFetch(pull_request_urls)
    /\ UNCHANGED <<error, access_token, uaa_requests, template, pull_request_urls, search_status,
                   pulls, message_groups, ctasks, completions, log, endpoint_log,
                   pulls_report, stdout>>

(***************************************************************************)
(* GitHubProvider.get_comments and get_pull_request_pull.                  *)
(***************************************************************************)
Returned == "returned"

Message(role, content) == [role |-> role, content |-> content]

Comment(login, body) == [user |-> [login |-> login], body |-> body]
BrokenComment(login) == [user |-> [login |-> login]]

PullRequest(u, login, body) ==
    [user |-> [login |-> login], body |-> body,
     comments_url |-> CommentsUrl(u), review_comments_url |-> ReviewCommentsUrl(u)]
BrokenPullRequest == [message |-> "Not Found"]

\* Lines 85-106: the messages of one comment stream.
\* Mutant of RoleName: the comparison inverted.
RoleNameInverted(author_login, student_login) ==
    IF author_login = student_login THEN "assistant" ELSE "user"

\* Line 89.
RoleName(author_login, student_login) ==
    IF author_login = student_login THEN "user" ELSE "assistant"

RECURSIVE get_comments(_, _)
get_comments(comments_json, student_login) ==
    IF comments_json = <<>> THEN <<>>
    ELSE LET comment == Head(comments_json)
             author_login == comment.user.login
             role_name == RoleName(author_login, student_login)
             content == comment.body
             rest == get_comments(Tail(comments_json), student_login)
         IN  IF content = "" THEN rest
             ELSE <<Message(role_name, content)>> \o rest

CommentsRaise(comments_json) ==
    \E i \in DOMAIN comments_json :
        \/ "user" \notin DOMAIN comments_json[i]
        \/ "body" \notin DOMAIN comments_json[i]

\* Lines 120-131: the pull with the body as its first message, unless empty.
NewPull(url, pull_request) ==
    [url |-> url,
     messages |-> IF pull_request.body = "" THEN <<>>
                  ELSE <<Message("user", pull_request.body)>>]

\* Mutant of Extend: the comments are put in front of the messages.
ExtendInFront(messages, comments) == comments \o messages

\* Lines 137 and 143: pull['messages'].extend(comments).
Extend(messages, comments) == messages \o comments

\* Mutant of PullResponse: the pull is one object shared by the tasks, so the
\* answer to one task replaces the conversation of every task.
PullResponseShared(i, payloads) ==
    /\ pc = "fetch"
    /\ i \in DOMAIN ftasks
    /\ ftasks[i].awaiting = ftasks[i].url
    /\ \E pull_request \in payloads :
         IF {"user", "body", "comments_url", "review_comments_url"} \subseteq DOMAIN pull_request
         THEN /\ ftasks' = [j \in DOMAIN ftasks |->
                    IF j = i
                    THEN [ftasks[j] EXCEPT !.pull_request = pull_request,
                                           !.student_login = pull_request.user.login,
                                           !.pull = NewPull(ftasks[i].url, pull_request),
                                           !.awaiting = pull_request.comments_url]
                    ELSE [ftasks[j] EXCEPT !.pull = NewPull(ftasks[i].url, pull_request)]]
              /\ UNCHANGED <<pc, error, session, stdout>>
         ELSE Raise(KeyError("user"))
    /\ UNCHANGED <<access_token, uaa_requests, template, page, pull_request_urls, search_data,
                   search_status, sessions, pulls, message_groups, ctasks, completions,
                   log, endpoint_log, pulls_report>>

\* Lines 114-136: the pull resource arrives at task i.
PullResponse(i, payloads) ==
    /\ pc = "fetch"
    /\ i \in DOMAIN ftasks
    /\ ftasks[i].awaiting = ftasks[i].url
    /\ \E pull_request \in payloads :
         IF {"user", "body", "comments_url", "review_comments_url"} \subseteq DOMAIN pull_request
         THEN /\ ftasks' = [ftasks EXCEPT ![i] =
                    [@ EXCEPT !.pull_request = pull_request,
                              !.student_login = pull_request.user.login,
                              !.pull = NewPull(ftasks[i].url, pull_request),
                              !.awaiting = pull_request.comments_url]]
              /\ UNCHANGED <<pc, error, session, stdout>>
         ELSE Raise(KeyError("user"))
    /\ UNCHANGED <<access_token, uaa_requests, template, page, pull_request_urls, search_data,
                   search_status, sessions, pulls, message_groups, ctasks, completions,
                   log, endpoint_log, pulls_report>>

\* Mutant of CommentsResponse: the pull is returned after the general comments,
\* the review comments are never requested.
CommentsResponseSkipReview(i, payloads) ==
    /\ pc = "fetch"
    /\ i \in DOMAIN ftasks
    /\ ftasks[i].awaiting \notin {ftasks[i].url, Returned}
    /\ \E comments_json \in payloads :
         IF CommentsRaise(comments_json)
         THEN Raise(KeyError("body"))
         ELSE LET t == ftasks[i]
                  comments == get_comments(comments_json, t.student_login)
              IN  /\ ftasks' = [ftasks EXCEPT ![i] =
                        [@ EXCEPT !.comments_json = Append(@, comments_json),
                                  !.pull.messages = Extend(@, comments),
                                  !.awaiting = Returned]]
                  /\ UNCHANGED <<pc, error, session, stdout>>
    /\ UNCHANGED <<access_token, uaa_requests, template, page, pull_request_urls, search_data,
                   search_status, sessions, pulls, message_groups, ctasks, completions,
                   log, endpoint_log, pulls_report>>

\* Lines 83-106 and 137-145: a comment stream arrives at task i.
CommentsResponse(i, payloads) ==
    /\ pc = "fetch"
    /\ i \in DOMAIN ftasks
    /\ ftasks[i].awaiting \notin {ftasks[i].url, Returned}
    /\ \E comments_json \in payloads :
         IF CommentsRaise(comments_json)
         THEN Raise(KeyError("body"))
         ELSE LET t == ftasks[i]
                  comments == get_comments(comments_json, t.student_login)
              IN  /\ ftasks' = [ftasks EXCEPT ![i] =
                        [@ EXCEPT !.comments_json = Append(@, comments_json),
                                  !.pull.messages = Extend(@, comments),
                                  !.awaiting = IF Len(t.comments_json) = 0
                                               THEN t.pull_request.review_comments_url
                                               ELSE Returned]]
                  /\ UNCHANGED <<pc, error, session, stdout>>
    /\ UNCHANGED <<access_token, uaa_requests, template, page, pull_request_urls, search_data,
                   search_status, sessions, pulls, message_groups, ctasks, completions,
                   log, endpoint_log, pulls_report>>


(***************************************************************************)
(* OpenAiProvider.get_completion and get_completions.                      *)
(***************************************************************************)
Contents == {"mock_completion", ""}
Completion(content) == [choices |-> <<[message |-> [content |-> content]]>>]
OverloadedBody == [error |-> "overloaded"]
ErrorBody == [error |-> "unexpected"]

\* What the completion endpoint can answer to one request.
CompletionResponses ==
    {[status |-> StatusOk, json |-> Completion(c)] : c \in Contents}
    \cup {[status |-> StatusOk, json |-> [id |-> "no-choices"]]}
    \cup {[status |-> StatusOverloaded, json |-> OverloadedBody]}
    \cup {[status |-> st, json |-> ErrorBody] : st \in OtherStatuses}

\* Mutant of DictSet: the groups are kept in a list, one entry per insertion.
DictSetAppend(d, k, v) == Append(d, [key |-> k, value |-> v])

\* message_groups is a dict: the key keeps the place of its first insertion.
DictSet(d, k, v) ==
    IF \E i \in DOMAIN d : d[i].key = k
    THEN [i \in DOMAIN d |-> IF d[i].key = k THEN [key |-> k, value |-> v] ELSE d[i]]
    ELSE Append(d, [key |-> k, value |-> v])

\* Mutant of CompletionTask: the call exchanges the credentials for a token of
\* its own instead of using the one of the provider.
CompletionTaskFreshToken(group_name, messages) ==
    [group_name |-> group_name,
     data |-> [template EXCEPT !.messages = messages],
     headers |-> [Authorization |-> <<"Bearer", "refreshed-access-token">>],
     state |-> "SENDING", attempts |-> 0,
     status_code |-> NoStatus, response_json |-> <<>>, result |-> <<>>]

\* Lines 229-253: the task of one group, with its first request in flight.
CompletionTask(group_name, messages) ==
    [group_name |-> group_name,
     data |-> [template EXCEPT !.messages = messages],
     headers |-> [Authorization |-> <<"Bearer", access_token>>],
     state |-> "SENDING", attempts |-> 0,
     status_code |-> NoStatus, response_json |-> <<>>, result |-> <<>>]

\* Mutant of CompletionResult: every task reports the name of the last group.
CompletionResultLastName(group_name, response_json) ==
    [group_name |-> message_groups[Len(message_groups)].key, completion |-> response_json]

\* Mutant of CompletionResult: after a retry the body of the first answer is kept.
CompletionResultFirstBody(group_name, response_json) ==
    [group_name |-> group_name,
     completion |-> IF \E i \in DOMAIN ctasks :
                          ctasks[i].group_name = group_name /\ ctasks[i].attempts > 0
                    THEN OverloadedBody ELSE response_json]

\* Lines 264-267.
CompletionResult(group_name, response_json) ==
    [group_name |-> group_name, completion |-> response_json]

\* Mutant of IsOverloaded: every server error is retried.
IsServerError(status_code) == status_code >= StatusOverloaded

\* Line 262 and line 269.
IsSuccess(status_code) == status_code = StatusOk
IsOverloaded(status_code) == status_code = StatusOverloaded

\* Mutant of StartCompletions: the template is not copied, every call sets
\* 'messages' on the configured object itself and sends that object.
StartCompletionsAliased(phase, groups) ==
    LET shared == IF groups = <<>> THEN template
                  ELSE [template EXCEPT !.messages = groups[Len(groups)].value]
    IN  /\ pc' = phase
        /\ session' = phase
        /\ sessions' = OpenSession(phase)
        /\ template' = shared
        /\ message_groups' = groups
        /\ ctasks' = [i \in DOMAIN groups |->
                        [CompletionTask(groups[i].key, groups[i].value)
                            EXCEPT !.data = shared]]
        /\ log' = log \cup {<<"invoking", groups[i].key>> : i \in DOMAIN groups}

\* Mutant of StartCompletions: one request at a time, the other calls wait
\* for their turn.
StartCompletionsCapped(phase, groups) ==
    /\ pc' = phase
    /\ session' = phase
    /\ sessions' = OpenSession(phase)
    /\ template' = template
    /\ message_groups' = groups
    /\ ctasks' = [i \in DOMAIN groups |->
                    [CompletionTask(groups[i].key, groups[i].value)
                        EXCEPT !.state = IF i = 1 THEN "SENDING" ELSE "WAIT"]]
    /\ log' = log \cup {<<"invoking", groups[i].key>> : i \in DOMAIN groups}

\* Lines 278-284: the session and one task per item of the dict, in its order.
StartCompletions(phase, groups) ==
    /\ pc' = phase
    /\ session' = phase
    /\ sessions' = OpenSession(phase)
    /\ template' = template
    /\ message_groups' = groups
    /\ ctasks' = [i \in DOMAIN groups |-> CompletionTask(groups[i].key, groups[i].value)]
    /\ log' = log \cup {<<"invoking", groups[i].key>> : i \in DOMAIN groups}

Sleeping == \E i \in DOMAIN ctasks : ctasks[i].state = "WAIT"

\* Mutant of Cancelled: the siblings of a failed task are left running.
CancelledKeepsRunning(t) == t

\* What asyncio.run leaves of a sibling when the batch fails: a task that has
\* not returned is cancelled, and its frame (the locals) is gone.
Cancelled(t) ==
    IF t.state = "DONE" THEN t
    ELSE [t EXCEPT !.state = "CANCELLED", !.attempts = 0,
                   !.status_code = NoStatus, !.response_json = <<>>]

\* Lines 254-273: the answer to the request of task i arrives.
CompletionResponse(i) ==
    /\ pc \in {"phase1", "phase2"}
    /\ i \in DOMAIN ctasks
    /\ ctasks[i].state = "SENDING"
    /\ ~Sleeping
    /\ \E resp \in CompletionResponses :
         LET t == [ctasks[i] EXCEPT !.status_code = resp.status, !.response_json = resp.json]
         IN  IF IsSuccess(t.status_code)
             THEN /\ ctasks' = [ctasks EXCEPT ![i] =
                        [t EXCEPT !.state = "DONE",
                                  !.result = CompletionResult(t.group_name, t.response_json)]]
                  /\ log' = log \cup {<<"completed", t.group_name>>}
                  /\ endpoint_log' = endpoint_log \cup
                        {[messages |-> t.data.messages, completion |-> resp.json]}
                  /\ UNCHANGED <<pc, error, session, ftasks, stdout>>
             ELSE IF IsOverloaded(t.status_code)
             THEN /\ t.attempts < MaxRetries
                  /\ ctasks' = [ctasks EXCEPT ![i] =
                        [t EXCEPT !.state = "WAIT", !.attempts = @ + 1]]
                  /\ UNCHANGED <<pc, error, session, ftasks, stdout, log, endpoint_log>>
             ELSE /\ Raise(RuntimeError(t.status_code))
                  /\ ctasks' = [j \in DOMAIN ctasks |->
                                  IF j = i THEN [t EXCEPT !.state = "FAILED"]
                                  ELSE Cancelled(ctasks[j])]
                  /\ UNCHANGED <<log, endpoint_log>>
    /\ UNCHANGED <<access_token, uaa_requests, template, page, pull_request_urls, search_data,
                   search_status, sessions, pulls, message_groups, completions,
                   pulls_report>>

\* Mutant of Wake: after two overloaded answers the call gives up.
WakeGivesUp(i) ==
    /\ pc \in {"phase1", "phase2"}
    /\ i \in DOMAIN ctasks
    /\ ctasks[i].state = "WAIT"
    /\ ctasks' = [ctasks EXCEPT ![i].state = IF ctasks[i].attempts >= 2 THEN "FAILED"
                                             ELSE "SENDING"]
    /\ log' = log \cup {<<"invoking", ctasks[i].group_name>>}
    /\ UNCHANGED <<pc, error, access_token, uaa_requests, template, page, pull_request_urls,
                   search_data, search_status, session, sessions, ftasks, pulls,
                   message_groups, completions, endpoint_log, pulls_report, stdout>>

\* Mutant of Wake: the retry sends the requests of the whole batch again.
WakeRestartsBatch(i) ==
    /\ pc \in {"phase1", "phase2"}
    /\ i \in DOMAIN ctasks
    /\ ctasks[i].state = "WAIT"
    /\ ctasks' = [j \in DOMAIN ctasks |->
                    [ctasks[j] EXCEPT !.state = "SENDING", !.result = <<>>]]
    /\ log' = log \cup {<<"invoking", ctasks[j].group_name>> : j \in DOMAIN ctasks}
    /\ UNCHANGED <<pc, error, access_token, uaa_requests, template, page, pull_request_urls,
                   search_data, search_status, session, sessions, ftasks, pulls,
                   message_groups, completions, endpoint_log, pulls_report, stdout>>

\* Mutant of Wake: the sleep never returns.
WakeSleepsOn(i) ==
    /\ pc \in {"phase1", "phase2"}
    /\ i \in DOMAIN ctasks
    /\ ctasks[i].state = "WAIT"
    /\ UNCHANGED vars

\* Lines 271 and 247-253: time.sleep(1) returns and the request is sent again.
\* time.sleep blocks the event loop: no other task runs while one sleeps.
Wake(i) ==
    /\ pc \in {"phase1", "phase2"}
    /\ i \in DOMAIN ctasks
    /\ ctasks[i].state = "WAIT"
    /\ ctasks' = [ctasks EXCEPT ![i].state = "SENDING"]
    /\ log' = log \cup {<<"invoking", ctasks[i].group_name>>}
    /\ UNCHANGED <<pc, error, access_token, uaa_requests, template, page, pull_request_urls,
                   search_data, search_status, session, sessions, ftasks, pulls,
                   message_groups, completions, endpoint_log, pulls_report, stdout>>

AllDone == \A i \in DOMAIN ctasks : ctasks[i].state = "DONE"

\* Lines 284-288: gather returns the results in task order, the session is
\* closed, get_completions returns.
ReturnCompletions(ready, results) ==
    /\ pc \in {"phase1", "phase2"}
    /\ ready
    /\ completions' = results
    /\ pc' = IF pc = "phase1" THEN "phase1_joined" ELSE "phase2_joined"
    /\ session' = NoSession
    /\ ctasks' = <<>>
    /\ UNCHANGED <<error, access_token, uaa_requests, template, page, pull_request_urls, search_data,
                   search_status, sessions, ftasks, pulls, message_groups, log,
                   endpoint_log, pulls_report, stdout>>

\* Mutant of CompletionsReturn: the join returns with the first results.
CompletionsReturnEarly ==
    LET IsDone(t) == t.state = "DONE"
        done == SelectSeq(ctasks, IsDone)
    IN  ReturnCompletions(done # <<>>, [i \in DOMAIN done |-> done[i].result])

\* Mutant of CompletionsReturn: the results are returned latest task first.
CompletionsReturnReversed ==
    ReturnCompletions(AllDone,
                      [i \in DOMAIN ctasks |-> ctasks[Len(ctasks) + 1 - i].result])

CompletionsReturn ==
    ReturnCompletions(AllDone, [i \in DOMAIN ctasks |-> ctasks[i].result])

(***************************************************************************)
(* ReportGenerator and main.                                               *)
(***************************************************************************)
\* Mutant of PullMessages: the pull prompt is put before the conversation.
PullMessagesPromptFirst(pull) ==
    <<Message("system", grounding_prompt)>>
    \o <<Message("user", pull_prompt)>>
    \o pull.messages

\* report.py lines 102-114.
PullMessages(pull) ==
    <<Message("system", grounding_prompt)>>
    \o pull.messages
    \o <<Message("user", pull_prompt)>>

\* Mutant of PullGroups: a conversation without messages gets no group.
RECURSIVE PullGroupsSkipEmpty(_, _)
PullGroupsSkipEmpty(groups, ps) ==
    IF ps = <<>> THEN groups
    ELSE LET pull == Head(ps)
             messages == PullMessages(pull)
         IN  IF pull.messages = <<>> THEN PullGroupsSkipEmpty(groups, Tail(ps))
             ELSE PullGroupsSkipEmpty(DictSet(groups, pull.url, messages), Tail(ps))

\* report.py lines 97-119.
RECURSIVE PullGroups(_, _)
PullGroups(groups, ps) ==
    IF ps = <<>> THEN groups
    ELSE LET pull == Head(ps)
             messages == PullMessages(pull)
         IN  PullGroups(DictSet(groups, pull.url, messages), Tail(ps))

\* Mutant of SummaryMessages: the analyses in reverse order.
SummaryMessagesReversed(ps) ==
    <<Message("system", grounding_prompt)>>
    \o [i \in DOMAIN ps |-> Message("assistant", ps[Len(ps) + 1 - i].analysis)]
    \o <<Message("user", overview_prompt)>>

\* Mutant of SummaryMessages: without analyses a placeholder is sent in their place.
SummaryMessagesPlaceholder(ps) ==
    <<Message("system", grounding_prompt)>>
    \o (IF ps = <<>> THEN <<Message("assistant", "no pull requests found")>>
        ELSE [i \in DOMAIN ps |-> Message("assistant", ps[i].analysis)])
    \o <<Message("user", overview_prompt)>>

\* report.py lines 45-64.
SummaryMessages(ps) ==
    <<Message("system", grounding_prompt)>>
    \o [i \in DOMAIN ps |-> Message("assistant", ps[i].analysis)]
    \o <<Message("user", overview_prompt)>>

\* report.py lines 69-71.
SummaryGroups(ps) == <<[key |-> "summary", value |-> SummaryMessages(ps)]>>

HasContent(completion) ==
    /\ "choices" \in DOMAIN completion
    /\ Len(completion.choices) > 0

FirstContent(completion) == completion.choices[1].message.content

\* Mutant of PullAnalysis: the analysis is always read from the first result.
PullAnalysisFirst(completion_info) ==
    [url |-> completion_info.group_name,
     analysis |-> completions[1].completion.choices[1].message.content]

\* report.py lines 134-137.
PullAnalysis(completion_info) ==
    [url |-> completion_info.group_name,
     analysis |-> FirstContent(completion_info.completion)]

\* report.py lines 78-86.
Report(summary, ps) ==
    [prompts |-> [grounding |-> grounding_prompt, pull |-> pull_prompt,
                  overview |-> overview_prompt],
     summary |-> summary,
     pulls |-> ps]

\* Mutant of AllReturned: the join does not wait for the review comments.
AllReturnedOneStream == \A i \in DOMAIN ftasks : Len(ftasks[i].comments_json) >= 1

\* providers.py line 170: every task of the gather has returned.
AllReturned == \A i \in DOMAIN ftasks : ftasks[i].awaiting = Returned

\* providers.py 170-187, report.py 93-121, providers.py 278-284: gather returns
\* the pulls in task order, the groups are built and phase 1 is started.
FetchJoin ==
    /\ pc = "fetch"
    /\ AllReturned
    /\ LET result_pulls == [i \in DOMAIN ftasks |-> ftasks[i].pull] IN
       /\ pulls' = result_pulls
       /\ StartCompletions("phase1", PullGroups(<<>>, result_pulls))
    /\ ftasks' = <<>>
    /\ UNCHANGED <<error, access_token, uaa_requests, page, pull_request_urls, search_data,
                   search_status, completions, endpoint_log, pulls_report, stdout>>

\* report.py 123-144 and 38-73, providers.py 278-284: the results of phase 1
\* are projected, the summary group is built and phase 2 is started.
PullsReport ==
    /\ pc = "phase1_joined"
    /\ IF \E i \in DOMAIN completions : ~HasContent(completions[i].completion)
       THEN /\ Raise(KeyError("choices"))
            /\ UNCHANGED <<pulls_report, message_groups, ctasks, log, sessions, template>>
       ELSE LET resulting_pulls == [i \in DOMAIN completions |-> PullAnalysis(completions[i])]
            IN  /\ pulls_report' = resulting_pulls
                /\ StartCompletions("phase2", SummaryGroups(resulting_pulls))
                /\ UNCHANGED <<error, ftasks, stdout>>
    /\ UNCHANGED <<access_token, uaa_requests, page, pull_request_urls, search_data,
                   search_status, pulls, completions, endpoint_log>>

\* report.py 75-88 and 38-40, main.py 64-68: the report is built and printed.
SummaryReport ==
    /\ pc = "phase2_joined"
    /\ IF ~HasContent(completions[1].completion)
       THEN Raise(KeyError("choices"))
       ELSE /\ stdout' = <<Report(FirstContent(completions[1].completion), pulls_report)>>
            /\ pc' = "done"
            /\ UNCHANGED <<error, session, ftasks>>
    /\ UNCHANGED <<access_token, uaa_requests, template, page, pull_request_urls, search_data,
                   search_status, sessions, pulls, message_groups, ctasks, completions,
                   log, endpoint_log, pulls_report>>

(***************************************************************************)
(* The run.                                                                *)
(***************************************************************************)
Logins == {"student", "reviewer"}

\* The payloads of the pipeline specification.
PipelinePullRequests(u) ==
    {PullRequest(u, "student", b) : b \in {"", "mock_body"}} \cup {BrokenPullRequest}
PipelineComments ==
    {<<>>, <<Comment("reviewer", "mock_comment")>>, <<Comment("reviewer", "")>>,
     <<BrokenComment("reviewer")>>}

Init ==
    /\ pc = "construct"
    /\ error = NoError
    /\ access_token = NoToken
    /\ uaa_requests = 0
    /\ template = data_template
    /\ page = NoPage
    /\ pull_request_urls = <<>>
    /\ search_data = NoData
    /\ search_status = NoStatus
    /\ session = NoSession
    /\ sessions = NoSessions
    /\ ftasks = <<>>
    /\ pulls = <<>>
    /\ message_groups = <<>>
    /\ ctasks = <<>>
    /\ completions = <<>>
    /\ log = {}
    /\ endpoint_log = {}
    /\ pulls_report = <<>>
    /\ stdout = <<>>

FetchPull == \E i \in DOMAIN ftasks : PullResponse(i, PipelinePullRequests(ftasks[i].url))
FetchComments == \E i \in DOMAIN ftasks : CommentsResponse(i, PipelineComments)
Complete == \E i \in DOMAIN ctasks : CompletionResponse(i)
Retry == \E i \in DOMAIN ctasks : Wake(i)

Next ==
    \/ Construct
    \/ SearchPage
    \/ SearchReturn
    \/ FetchPull
    \/ FetchComments
    \/ FetchJoin
    \/ Complete
    \/ Retry
    \/ CompletionsReturn
    \/ PullsReport
    \/ SummaryReport

Spec == Init /\ [][Next]_vars

(***************************************************************************)
(* The fetch phase alone, over richer payloads: both logins as requester,  *)
(* and up to MaxComments comments per pull, spread over the two streams.   *)
(***************************************************************************)
FetchUrlLists == {<<"pull-1">>, <<"pull-2", "pull-1">>}

FetchPullRequests(u) ==
    {PullRequest(u, l, b) : l \in Logins, b \in {"", "mock_body"}} \cup {BrokenPullRequest}

FetchCommentChoices ==
    {Comment("student", "comment-1"), Comment("reviewer", "comment-2"),
     Comment("reviewer", ""), BrokenComment("student")}

RECURSIVE TotalLen(_)
TotalLen(ss) == IF ss = <<>> THEN 0 ELSE Len(Head(ss)) + TotalLen(Tail(ss))

FetchCommentLists(t) == SeqsUpTo(FetchCommentChoices, MaxComments - TotalLen(t.comments_json))

InitFetch ==
    /\ pc = "fetch"
    /\ error = NoError
    /\ access_token \in Tokens
    /\ uaa_requests = 1
    /\ template = data_template
    /\ page = NoPage
    /\ pull_request_urls \in FetchUrlLists
    /\ search_data = NoData
    /\ search_status = StatusOk
    /\ session = "fetch"
    /\ sessions = [NoSessions EXCEPT !["search"] = 2, !["fetch"] = 1]
    /\ ftasks = [i \in DOMAIN pull_request_urls |-> FetchTask(pull_request_urls[i])]
    /\ pulls = <<>>
    /\ message_groups = <<>>
    /\ ctasks = <<>>
    /\ completions = <<>>
    /\ log = {}
    /\ endpoint_log = {}
    /\ pulls_report = <<>>
    /\ stdout = <<>>

FetchPullRich == \E i \in DOMAIN ftasks : PullResponse(i, FetchPullRequests(ftasks[i].url))
FetchCommentsRich == \E i \in DOMAIN ftasks : CommentsResponse(i, FetchCommentLists(ftasks[i]))

NextFetch ==
    \/ FetchPullRich
    \/ FetchCommentsRich
    \/ FetchJoin

SpecFetch == InitFetch /\ [][NextFetch]_vars

(***************************************************************************)
(* The run in a serving environment: the token exchange and every request  *)
(* are answered with a payload of the documented shape, a completion call  *)
(* gets at most MaxRetries overloaded answers and then a 200 with choices, *)
(* and the run does not stop while a step can be taken (the event loop     *)
(* runs a task that is ready, a response that is due arrives).             *)
(***************************************************************************)
Served == pc' # "failed"
ServedCompletion ==
    \A i \in DOMAIN ctasks' :
        ctasks'[i].state = "DONE" => ctasks'[i].response_json = Completion("mock_completion")

ServedPullRequests(u) == {PullRequest(u, "student", "mock_body")}
ServedComments == {<<>>, <<Comment("reviewer", "mock_comment")>>}

ConstructLive == Construct /\ Served
SearchPageLive == SearchPage /\ Served
FetchPullLive == \E i \in DOMAIN ftasks : PullResponse(i, ServedPullRequests(ftasks[i].url))
FetchCommentsLive == \E i \in DOMAIN ftasks : CommentsResponse(i, ServedComments)
CompleteLive == Complete /\ Served /\ ServedCompletion

NextLive ==
    \/ ConstructLive
    \/ SearchPageLive
    \/ SearchReturn
    \/ FetchPullLive
    \/ FetchCommentsLive
    \/ FetchJoin
    \/ CompleteLive
    \/ Retry
    \/ CompletionsReturn
    \/ PullsReport
    \/ SummaryReport

SpecLive == Init /\ [][NextLive]_vars /\ WF_vars(NextLive)

(***************************************************************************)
(* Properties.                                                             *)
(***************************************************************************)
SummaryInvoked == <<"invoking", "summary">> \in log
Completed(g) == <<"completed", g>> \in log

\* C1: the summary request is never issued before every per-pull completion
\* call has returned a successful result (logged 'completed').
C1_SummaryAfterEveryPull ==
    SummaryInvoked => \A i \in DOMAIN pull_request_urls : Completed(pull_request_urls[i])

C1_Witness ==
    /\ SummaryInvoked
    /\ Len(pulls_report) = 2
    /\ pulls_report[1].url # pulls_report[2].url

Joined == pc \in {"phase1_joined", "phase2_joined"}
ResultsNamed(g) == {j \in DOMAIN completions : completions[j].group_name = g}

\* C2: when get_completions returns, it returns as many results as groups were
\* submitted, and every submitted key names exactly one of them.
C2_OneResultPerGroup ==
    Joined =>
        /\ Len(completions) = Len(message_groups)
        /\ \A i \in DOMAIN message_groups :
               Cardinality(ResultsNamed(message_groups[i].key)) = 1

C2_Witness ==
    /\ pc = "phase1_joined"
    /\ Len(message_groups) = 2
    /\ Len(completions) = 2

\* C3: every pull analysis of the printed report carries a url the search
\* returned and the first-choice content of a 200 answer to the request whose
\* messages were built from a conversation of that url.
C3_NoCrossWiring ==
    stdout # <<>> =>
        \A k \in DOMAIN stdout[1].pulls :
            LET pa == stdout[1].pulls[k] IN
            /\ pa.url \in Range(pull_request_urls)
            /\ \E i \in DOMAIN pulls :
                 /\ pulls[i].url = pa.url
                 /\ \E e \in endpoint_log :
                      /\ e.messages = <<[role |-> "system", content |-> grounding_prompt]>>
                                      \o pulls[i].messages
                                      \o <<[role |-> "user", content |-> pull_prompt]>>
                      /\ "choices" \in DOMAIN e.completion
                      /\ e.completion.choices[1].message.content = pa.analysis

C3_Witness ==
    /\ stdout # <<>>
    /\ Len(stdout[1].pulls) = 2
    /\ stdout[1].pulls[1].url # stdout[1].pulls[2].url
    /\ stdout[1].pulls[1].analysis # stdout[1].pulls[2].analysis
    /\ pulls[1].messages # pulls[2].messages

\* C4: a call that is done, after any number of overloaded answers, holds one
\* result: the submitted name with the body of its 200 answer and nothing of
\* the overloaded answers, so the same as without any retry; and the batch
\* returns exactly one result for the group.
C4_RetryIdempotent ==
    /\ \A i \in DOMAIN ctasks :
         ctasks[i].state = "DONE" =>
            /\ ctasks[i].status_code = 200
            /\ ctasks[i].result = [group_name |-> ctasks[i].group_name,
                                   completion |-> ctasks[i].response_json]
            /\ ctasks[i].result.completion # OverloadedBody
            /\ [messages |-> ctasks[i].data.messages,
                completion |-> ctasks[i].result.completion] \in endpoint_log
    /\ Joined => \A j \in DOMAIN completions :
                    /\ Cardinality(ResultsNamed(completions[j].group_name)) = 1
                    /\ completions[j].completion # OverloadedBody

C4_Witness ==
    \E i \in DOMAIN ctasks :
        /\ ctasks[i].state = "DONE"
        /\ ctasks[i].attempts = MaxRetries

\* C5: a call that is answered with a status other than 200 and 500 has
\* failed with that status, whatever the number of retries before; it is not
\* sending or waiting again and no result of its group exists.
C5_UnexpectedStatusFails ==
    \A i \in DOMAIN ctasks :
        ctasks[i].status_code \notin {NoStatus, 200, 500} =>
            /\ ctasks[i].state = "FAILED"
            /\ ctasks[i].result = <<>>
            /\ pc = "failed"
            /\ error = [type |-> "RuntimeError", status_code |-> ctasks[i].status_code]
            /\ ResultsNamed(ctasks[i].group_name) = {}

C5_Witness ==
    \E i \in DOMAIN ctasks :
        /\ ctasks[i].state = "FAILED"
        /\ ctasks[i].attempts >= 1
        /\ ctasks[i].status_code = 400

C7_SearchFailureIsFatal ==
    search_status \notin {NoStatus, 200} => pc = "failed"

HasBody(comment) == comment.body # ""
Kept(comments_json) == SelectSeq(comments_json, HasBody)
Bodies(comments_json) == [j \in DOMAIN Kept(comments_json) |-> Kept(comments_json)[j].body]
TaskReturned(t) == t.awaiting = Returned

\* C8: the messages of a returned conversation are the pull body (if not
\* empty), then the general comments in the order the server gave them, then
\* the review comments in the order the server gave them.
C8_MessageOrder ==
    \A i \in DOMAIN ftasks :
        TaskReturned(ftasks[i]) =>
            LET t == ftasks[i]
                m == t.pull.messages
            IN  /\ t.pull.url = t.url
                /\ Len(t.comments_json) = 2
                /\ [j \in DOMAIN m |-> m[j].content]
                     = (IF t.pull_request.body = "" THEN <<>> ELSE <<t.pull_request.body>>)
                       \o Bodies(t.comments_json[1])
                       \o Bodies(t.comments_json[2])

C8_Witness ==
    /\ Len(ftasks) = 2
    /\ TaskReturned(ftasks[1])
    /\ ~TaskReturned(ftasks[2])
    /\ ftasks[2].pull_request # <<>>
    /\ ftasks[1].pull_request.body # ""
    /\ Bodies(ftasks[1].comments_json[1]) # <<>>
    /\ Bodies(ftasks[1].comments_json[2]) # <<>>
    /\ Bodies(ftasks[1].comments_json[1]) # Bodies(ftasks[1].comments_json[2])

\* C9: the message of a comment has role 'user' exactly when the comment's
\* author is the requester of the pull, and 'assistant' otherwise; the message
\* of the pull body has role 'user'.
C9_RoleAssignment ==
    \A i \in DOMAIN ftasks :
        TaskReturned(ftasks[i]) =>
            LET t == ftasks[i]
                m == t.pull.messages
                kept == Kept(t.comments_json[1]) \o Kept(t.comments_json[2])
                off == IF t.pull_request.body = "" THEN 0 ELSE 1
            IN  /\ Len(m) = off + Len(kept)
                /\ off = 1 => m[1].role = "user"
                /\ \A j \in DOMAIN kept :
                     /\ m[off + j].role \in {"user", "assistant"}
                     /\ m[off + j].role = "user"
                          <=> kept[j].user.login = t.pull_request.user.login

C9_Witness ==
    \E i \in DOMAIN ftasks :
        /\ TaskReturned(ftasks[i])
        /\ ftasks[i].pull_request.user.login = "reviewer"
        /\ ftasks[i].pull_request.body # ""
        /\ \E c1, c2 \in Range(Kept(ftasks[i].comments_json[1]) \o Kept(ftasks[i].comments_json[2])) :
             c1.user.login = "reviewer" /\ c2.user.login = "student"

\* C10: the summary request is one group named 'summary': the grounding prompt
\* as system message, one assistant message per pull analysis in the order of
\* the analyses, the overview prompt as user message.
C10_SummaryPayload ==
    pc = "phase2" =>
        /\ Len(ctasks) = 1
        /\ Len(message_groups) = 1
        /\ message_groups[1].key = "summary"
        /\ ctasks[1].group_name = "summary"
        /\ ctasks[1].data.messages = message_groups[1].value
        /\ LET m == ctasks[1].data.messages IN
           /\ Len(m) = Len(pulls_report) + 2
           /\ m[1] = [role |-> "system", content |-> grounding_prompt]
           /\ \A k \in DOMAIN pulls_report :
                m[k + 1] = [role |-> "assistant", content |-> pulls_report[k].analysis]
           /\ m[Len(m)] = [role |-> "user", content |-> overview_prompt]

C10_Witness ==
    /\ pc = "phase2"
    /\ Len(pulls_report) = 2
    /\ pulls_report[1].analysis # pulls_report[2].analysis

\* The conversation a group keyed u is built from: with a url fetched more
\* than once, the one fetched for its last occurrence.
LastPull(u) ==
    pulls[CHOOSE i \in DOMAIN pulls :
            /\ pulls[i].url = u
            /\ \A j \in DOMAIN pulls : pulls[j].url = u => j <= i]

\* C11: every group submitted in phase 1 is keyed by the url of a fetched
\* conversation, and the messages of its request are the grounding prompt as
\* system message, the messages of the conversation in their order, the pull
\* prompt as user message: two more than the conversation has.
C11_PullGroupPayload ==
    pc = "phase1" =>
        /\ Len(ctasks) = Len(message_groups)
        /\ \A i \in DOMAIN message_groups :
             LET g == message_groups[i]
                 m == ctasks[i].data.messages
             IN  /\ ctasks[i].group_name = g.key
                 /\ m = g.value
                 /\ \E j \in DOMAIN pulls : pulls[j].url = g.key
                 /\ LET conversation == LastPull(g.key).messages IN
                    /\ Len(m) = Len(conversation) + 2
                    /\ m[1] = [role |-> "system", content |-> grounding_prompt]
                    /\ \A k \in DOMAIN conversation : m[k + 1] = conversation[k]
                    /\ m[Len(m)] = [role |-> "user", content |-> pull_prompt]

C11_Witness ==
    /\ pc = "phase1"
    /\ Len(message_groups) = 2
    /\ Len(pulls[1].messages) >= 2
    /\ pulls[1].messages # pulls[2].messages

ZeroPulls == pull_request_urls = <<>> /\ sessions["fetch"] > 0
SummaryOnly == <<[role |-> "system", content |-> grounding_prompt],
                 [role |-> "user", content |-> overview_prompt]>>

\* C12: once the search has returned no url, no fetch task and no phase-1
\* completion task ever exists and no request other than the summary's is
\* logged; the pulls report is empty; the run can only fail in the summary
\* call; phase 2 runs once, as one call named 'summary' whose messages are
\* the grounding prompt and the overview prompt and nothing else.
C12_ZeroPulls ==
    ZeroPulls =>
        /\ ftasks = <<>>
        /\ pulls = <<>>
        /\ pulls_report = <<>>
        /\ \A l \in log : l[2] = "summary"
        /\ \A e \in endpoint_log : e.messages = SummaryOnly
        /\ pc \in {"fetch", "phase1", "phase1_joined"} =>
              ctasks = <<>> /\ completions = <<>> /\ log = {}
        /\ pc = "phase2" =>
              /\ Len(ctasks) = 1
              /\ ctasks[1].group_name = "summary"
              /\ ctasks[1].data.messages = SummaryOnly
        /\ pc \in {"phase2", "phase2_joined", "done"} => sessions["phase2"] = 1
        /\ pc = "failed" => SummaryInvoked
        /\ stdout # <<>> => stdout[1].pulls = <<>>

C12_Witness ==
    /\ ZeroPulls
    /\ pc = "done"
    /\ stdout # <<>>
    /\ Completed("summary")

\* C13: a group that is answered 500 and retries does not touch its siblings:
\* a step of one call of a running batch changes no other call; a call answered
\* 200 is done with the body of that answer as its result, whatever the state
\* of its siblings, and a done call keeps its result until the batch ends; the
\* batch itself returns only when every call is done, with those results.
C13_SiblingIsolation ==
    [][/\ (pc' = pc /\ pc \in {"phase1", "phase2"}) =>
            \A i \in DOMAIN ctasks :
                ctasks'[i] # ctasks[i] =>
                    \A j \in DOMAIN ctasks \ {i} : ctasks'[j] = ctasks[j]
       /\ \A j \in DOMAIN ctasks :
            (ctasks[j].state = "SENDING" /\ j \in DOMAIN ctasks'
                                        /\ ctasks'[j].status_code = 200) =>
                /\ ctasks'[j].state = "DONE"
                /\ ctasks'[j].result = [group_name |-> ctasks[j].group_name,
                                        completion |-> ctasks'[j].response_json]
       /\ \A j \in DOMAIN ctasks :
            (ctasks[j].state = "DONE" /\ j \in DOMAIN ctasks') => ctasks'[j] = ctasks[j]
       /\ (pc \in {"phase1", "phase2"} /\ pc' \in {"phase1_joined", "phase2_joined"}) =>
            /\ \A j \in DOMAIN ctasks : ctasks[j].state = "DONE"
            /\ completions' = [j \in DOMAIN ctasks |-> ctasks[j].result]
      ]_vars

C13_Witness ==
    \E i, j \in DOMAIN ctasks :
        /\ i # j
        /\ pc = "phase1"
        /\ ctasks[i].attempts = MaxRetries
        /\ ctasks[i].state \in {"SENDING", "WAIT"}
        /\ ctasks[j].state = "DONE"
        /\ ctasks[j].result.completion = Completion("mock_completion")

NonEmpty(messages) == \A k \in DOMAIN messages : messages[k].content # ""

\* C14: every message of every conversation (being fetched or returned) and
\* of every message group (built, submitted or answered) has non-empty content.
C14_NonEmptyContent ==
    /\ \A i \in DOMAIN ftasks : ftasks[i].pull # <<>> => NonEmpty(ftasks[i].pull.messages)
    /\ \A i \in DOMAIN pulls : NonEmpty(pulls[i].messages)
    /\ \A i \in DOMAIN message_groups : NonEmpty(message_groups[i].value)
    /\ \A i \in DOMAIN ctasks : NonEmpty(ctasks[i].data.messages)
    /\ \A e \in endpoint_log : NonEmpty(e.messages)

\* C15: the token endpoint is asked once, when the provider is constructed,
\* and never again; every completion call of both phases holds the token it
\* returned in the header of its request, on the first attempt and on every
\* retry.
C15_OneTokenExchange ==
    /\ uaa_requests = (IF pc = "construct" THEN 0 ELSE 1)
    /\ (pc \notin {"construct", "failed"}) => access_token \in Tokens
    /\ \A i \in DOMAIN ctasks :
         /\ access_token \in Tokens
         /\ ctasks[i].headers = [Authorization |-> <<"Bearer", access_token>>]

C15_Witness ==
    /\ pc = "phase2"
    /\ uaa_requests = 1
    /\ Len(pulls_report) >= 1
    /\ ctasks[1].attempts = MaxRetries
    /\ ctasks[1].state = "SENDING"
    /\ ctasks[1].headers.Authorization[2] = access_token

Phases == {"fetch", "phase1", "phase2"}
Running(t) == t.state \in {"SENDING", "WAIT"}

\* C16 as claimed: the search, the fetch phase and the two completion phases
\* each open exactly one session, open while the operation runs and at no
\* other time.
C16_OneSessionPerOperation ==
    /\ \A op \in Operations : sessions[op] <= 1
    /\ pc \in Phases => sessions[pc] = 1 /\ session = pc
    /\ pc \notin Phases => session = NoSession

\* C16, amended: the fetch phase and each completion phase open exactly one
\* session, which is open exactly while the phase runs (closed also when the
\* phase ends with an error) and is the only one open; tasks run only under
\* the session of their phase; the search holds no session between its page
\* requests and has opened one per page request.
C16_SessionPerPhase ==
    /\ \A op \in Phases : sessions[op] <= 1
    /\ pc \in Phases => sessions[pc] = 1 /\ session = pc
    /\ pc \notin Phases => session = NoSession
    /\ pc \in {"construct", "search", "searched"} => \A op \in Phases : sessions[op] = 0
    /\ ftasks # <<>> => session = "fetch"
    /\ (\E i \in DOMAIN ctasks : Running(ctasks[i])) => session \in {"phase1", "phase2"}
    /\ pc = "search" => sessions["search"] = (IF page > 2 THEN 2 ELSE page - 1)
    /\ pc = "searched" => sessions["search"] = (IF page > 1 THEN 2 ELSE page)

C16_Witness ==
    /\ pc = "failed"
    /\ error.type = "RuntimeError"
    /\ session = NoSession
    /\ sessions = [search |-> 2, fetch |-> 1, phase1 |-> 1, phase2 |-> 1]

ItemUrls(items) == [k \in DOMAIN items |-> items[k].pull_request.url]
StopPage(d) == IF "items" \in DOMAIN d THEN Len(d.items) = 0 ELSE TRUE

\* C17: the search starts at page 1 with no url; a page with items makes it
\* append the pull_request.url of every item, in item order, behind the urls
\* of the earlier pages, and ask for the next page; a page without 'items' or
\* with no item makes it stop there; what it returns, and the fetch phase
\* takes up, is the list as it stood, and it is never extended afterwards and
\* no further page is requested.
C17_Pagination ==
    [][/\ (pc = "construct" /\ pc' = "search") =>
            page' = 1 /\ pull_request_urls' = <<>>
       /\ (pc = "search" /\ pc' = "search") =>
            /\ ~StopPage(search_data')
            /\ page' = page + 1
            /\ pull_request_urls' = pull_request_urls \o ItemUrls(search_data'.items)
       /\ (pc = "search" /\ StopPage(search_data')) =>
            /\ pc' = "searched"
            /\ page' = page
            /\ pull_request_urls' = pull_request_urls
       /\ (pc = "search" /\ pc' = "searched") => StopPage(search_data')
       /\ pc = "searched" =>
            /\ pc' = "fetch"
            /\ [i \in DOMAIN ftasks' |-> ftasks'[i].url] = pull_request_urls
       /\ pc \notin {"construct", "search"} =>
            /\ pull_request_urls' = pull_request_urls
            /\ sessions'["search"] = sessions["search"]
            /\ search_status' = search_status
      ]_vars

C17_Witness ==
    /\ pc = "searched"
    /\ page = 3
    /\ pull_request_urls = <<"pull-2", "pull-1">>
    /\ "items" \notin DOMAIN search_data
    /\ search_status = 200

\* C18: a call whose last answer was 500, however many 500 answers it has had,
\* is waiting or sending again: it has not returned and not raised, its batch
\* has not joined and the run has not ended. Only an answer other than 500
\* ends the call.
C18_RetryUncapped ==
    \A i \in DOMAIN ctasks :
        ctasks[i].status_code = 500 =>
            /\ ctasks[i].attempts >= 1
            /\ ctasks[i].state \in {"SENDING", "WAIT"}
            /\ ctasks[i].result = <<>>
            /\ ~Completed(ctasks[i].group_name)
            /\ pc \in {"phase1", "phase2"}
            /\ session = pc
            /\ error = NoError
            /\ stdout = <<>>

C18_Witness ==
    /\ pc = "phase1"
    /\ Len(ctasks) = 1
    /\ ctasks[1].attempts = MaxRetries
    /\ ctasks[1].state = "WAIT"
    /\ ctasks[1].status_code = 500

Fetched == sessions["phase1"] > 0
Projected == pc \in {"phase2", "phase2_joined", "done"}
Keys(groups) == {groups[i].key : i \in DOMAIN groups}
Urls(ps) == {ps[i].url : i \in DOMAIN ps}

\* C19 as claimed: one group and one completion call per fetched
\* conversation, and as many pull analyses as the search returned urls.
C19_OneAnalysisPerUrl ==
    /\ pc = "phase1" => Len(message_groups) = Len(pulls) /\ Len(ctasks) = Len(pulls)
    /\ Projected => Len(pulls_report) = Len(pull_request_urls)

\* C19, amended: one conversation is fetched per url the search returned,
\* one group is built and one completion call issued per distinct url among
\* them, and the pulls report has one analysis per distinct url.
C19_OneAnalysisPerDistinctUrl ==
    /\ pc = "fetch" => Len(ftasks) = Len(pull_request_urls)
    /\ Fetched => Len(pulls) = Len(pull_request_urls)
    /\ pc = "phase1" =>
          /\ Len(message_groups) = Cardinality(Range(pull_request_urls))
          /\ Keys(message_groups) = Range(pull_request_urls)
          /\ Len(ctasks) = Len(message_groups)
          /\ \A i \in DOMAIN ctasks : ctasks[i].group_name = message_groups[i].key
    /\ pc = "phase1_joined" => Len(completions) = Cardinality(Range(pull_request_urls))
    /\ Projected =>
          /\ Len(pulls_report) = Cardinality(Range(pull_request_urls))
          /\ Urls(pulls_report) = Range(pull_request_urls)

C19_Witness ==
    /\ pc = "done"
    /\ pull_request_urls = <<"pull-1", "pull-1">>
    /\ Len(pulls) = 2
    /\ pulls[1].messages # pulls[2].messages
    /\ Len(stdout[1].pulls) = 1

Searching == pc \in {"construct", "search", "searched"}
FetchComplete(t) ==
    /\ t.awaiting = Returned
    /\ t.pull_request # <<>>
    /\ Len(t.comments_json) = 2

\* C20: while the search runs there is no fetch task and no fetch session;
\* the fetch tasks are started by the step in which the search returns, after
\* its stopping page; until the fetch phase has joined there is no completion
\* task and no completion request; the step that starts phase 1 is taken
\* with every conversation complete (pull resource and both comment streams
\* received, task returned), one per url, and hands them on as the pulls.
C20_StageBarriers ==
    /\ [](Searching => ftasks = <<>> /\ sessions["fetch"] = 0 /\ pulls = <<>>)
    /\ []((Searching \/ pc = "fetch") =>
            /\ ctasks = <<>>
            /\ log = {}
            /\ endpoint_log = {}
            /\ sessions["phase1"] = 0)
    /\ [][/\ (ftasks = <<>> /\ ftasks' # <<>>) =>
               /\ pc = "searched"
               /\ StopPage(search_data)
               /\ pull_request_urls' = pull_request_urls
          /\ (pc = "fetch" /\ pc' = "phase1") =>
               /\ Len(ftasks) = Len(pull_request_urls)
               /\ \A i \in DOMAIN ftasks : FetchComplete(ftasks[i])
               /\ pulls' = [i \in DOMAIN ftasks |-> ftasks[i].pull]
          /\ (log = {} /\ log' # {}) =>
               /\ pc \in {"fetch", "phase1_joined"}
               /\ Len(pulls') = Len(pull_request_urls)
               /\ \A i \in DOMAIN ftasks : FetchComplete(ftasks[i])
         ]_vars

C20_Witness ==
    /\ pc = "phase1"
    /\ Len(pulls) = 2
    /\ log # {}
    /\ \A i \in DOMAIN pulls : Len(pulls[i].messages) = 3

PullInFlight(t) == t.awaiting = t.url /\ t.pull_request = <<>>
FirstInFlight(t) == t.state = "SENDING" /\ t.attempts = 0 /\ t.status_code = NoStatus

C22_ThreeSequentialRequests ==
    [][\A i \in DOMAIN ftasks :
         (i \in DOMAIN ftasks' /\ ftasks'[i] # ftasks[i]) =>
            LET t == ftasks[i]
                n == ftasks'[i]
            IN  IF t.pull_request = <<>>
                THEN /\ t.awaiting = t.url
                     /\ t.comments_json = <<>>
                     /\ n.pull_request # <<>>
                     /\ n.comments_json = <<>>
                     /\ n.awaiting = n.pull_request.comments_url
                ELSE /\ n.pull_request = t.pull_request
                     /\ Len(n.comments_json) = Len(t.comments_json) + 1
                     /\ IF Len(t.comments_json) = 0
                        THEN /\ t.awaiting = t.pull_request.comments_url
                             /\ n.awaiting = t.pull_request.review_comments_url
                        ELSE /\ Len(t.comments_json) = 1
                             /\ t.awaiting = t.pull_request.review_comments_url
                             /\ n.awaiting = Returned
      ]_vars

C22_Witness ==
    /\ pc = "fetch"
    /\ Len(ftasks) = 2
    /\ ftasks[1].awaiting = ReviewCommentsUrl(ftasks[1].url)
    /\ Len(ftasks[1].comments_json) = 1
    /\ ftasks[2].awaiting = Returned
    /\ Len(ftasks[2].comments_json) = 2

\* C23: the body of every completion call, on its first attempt and after
\* every retry, is the configured template with 'messages' set to the
\* messages of its group and nothing else changed; the configured template
\* is never changed.
C23_RequestBodyFrame ==
    /\ template = data_template
    /\ \A i \in DOMAIN ctasks :
         /\ i \in DOMAIN message_groups
         /\ ctasks[i].group_name = message_groups[i].key
         /\ DOMAIN ctasks[i].data = DOMAIN data_template
         /\ ctasks[i].data.messages = message_groups[i].value
         /\ \A f \in DOMAIN data_template \ {"messages"} :
                ctasks[i].data[f] = data_template[f]

C23_Witness ==
    /\ pc = "phase1"
    /\ Len(ctasks) = 2
    /\ ctasks[1].data.messages # ctasks[2].data.messages
    /\ ctasks[1].state = "SENDING"
    /\ ctasks[1].attempts = MaxRetries
    /\ ctasks[2].state = "DONE"
    /\ template = data_template

Written(old, new) == {i \in DOMAIN old : new[i] # old[i]}

\* C24: a step inside the fetch phase changes the record of one task only,
\* whose conversation carries the url the task was started for, and does not
\* touch the list of pulls; a step inside a completion phase changes one call
\* only, whose result (if any) carries its own group name, and does not touch
\* the list of completions; the list of pulls and the list of completions
\* are written only by the join, from the results of tasks that have all
\* returned.
C24_SingleWriter ==
    [][/\ (pc = "fetch" /\ pc' = "fetch") =>
            /\ Cardinality(Written(ftasks, ftasks')) <= 1
            /\ \A i \in DOMAIN ftasks' :
                 /\ ftasks'[i].url = ftasks[i].url
                 /\ ftasks'[i].pull # <<>> => ftasks'[i].pull.url = ftasks[i].url
            /\ pulls' = pulls
       /\ (pc \in {"phase1", "phase2"} /\ pc' = pc) =>
            /\ Cardinality(Written(ctasks, ctasks')) <= 1
            /\ \A i \in DOMAIN ctasks' :
                 ctasks'[i].result # <<>> =>
                    ctasks'[i].result.group_name = ctasks[i].group_name
            /\ completions' = completions
       /\ pulls' # pulls =>
            /\ pc = "fetch"
            /\ \A i \in DOMAIN ftasks : ftasks[i].awaiting = Returned
            /\ pulls' = [i \in DOMAIN ftasks |-> ftasks[i].pull]
       /\ completions' # completions =>
            /\ pc \in {"phase1", "phase2"}
            /\ \A i \in DOMAIN ctasks : ctasks[i].state = "DONE"
            /\ completions' = [i \in DOMAIN ctasks |-> ctasks[i].result]
      ]_vars

C24_Witness ==
    /\ pc = "fetch"
    /\ Len(ftasks) = 2
    /\ ftasks[1].url # ftasks[2].url
    /\ ftasks[1].pull # <<>>
    /\ ftasks[2].pull # <<>>
    /\ ftasks[1].pull.messages # <<>>
    /\ ftasks[2].pull.messages = <<>>
    /\ pulls = <<>>

NoContent(t) ==
    /\ t.pull_request.body = ""
    /\ \A k \in DOMAIN t.comments_json :
         \A c \in DOMAIN t.comments_json[k] : t.comments_json[k][c].body = ""
PullOnly == <<[role |-> "system", content |-> grounding_prompt],
              [role |-> "user", content |-> pull_prompt]>>

\* C25: a task that has returned for a pull with an empty body and with
\* comment streams that are empty or hold only comments with an empty body has
\* raised nothing and holds a conversation of no message; a conversation of no
\* message has its group in phase 1, of exactly the grounding prompt and the
\* pull prompt; and its url has its analysis in the pulls report.
C25_EmptyConversation ==
    /\ \A i \in DOMAIN ftasks :
         (ftasks[i].awaiting = Returned /\ NoContent(ftasks[i])) =>
            /\ error = NoError
            /\ ftasks[i].pull = [url |-> ftasks[i].url, messages |-> <<>>]
    /\ pc = "phase1" =>
         \A j \in DOMAIN pulls :
            LastPull(pulls[j].url).messages = <<>> =>
                \E i \in DOMAIN ctasks :
                    /\ ctasks[i].group_name = pulls[j].url
                    /\ ctasks[i].data.messages = PullOnly
    /\ Projected =>
         \A j \in DOMAIN pulls :
            pulls[j].messages = <<>> =>
                Cardinality({k \in DOMAIN pulls_report :
                                pulls_report[k].url = pulls[j].url}) = 1

C25_Witness ==
    /\ pc = "done"
    /\ Len(pulls) = 2
    /\ pulls[1].messages = <<>>
    /\ pulls[2].messages # <<>>
    /\ Len(stdout[1].pulls) = 2
    /\ stdout[1].pulls[1] = [url |-> pulls[1].url, analysis |-> "mock_completion"]

DistinctUrls ==
    \A i, j \in DOMAIN pull_request_urls :
        i # j => pull_request_urls[i] # pull_request_urls[j]
UrlsOf(ps) == [k \in DOMAIN ps |-> ps[k].url]
NamesOf(ts) == [k \in DOMAIN ts |-> ts[k].group_name]

\* C26: when the urls the search returned are pairwise distinct, the fetch
\* tasks, the conversations, the groups and tasks of phase 1, its results and
\* the analyses of the pulls report are all in the order of the urls, in
\* every state, hence after the answers have arrived in whatever order; the
\* assistant messages of the summary request are the analyses in the order of
\* the pulls report, and the report printed carries that pulls report.
C26_ReportInSearchOrder ==
    DistinctUrls =>
        /\ pc = "fetch" => [k \in DOMAIN ftasks |-> ftasks[k].url] = pull_request_urls
        /\ Fetched => UrlsOf(pulls) = pull_request_urls
        /\ pc = "phase1" =>
              /\ [k \in DOMAIN message_groups |-> message_groups[k].key] = pull_request_urls
              /\ NamesOf(ctasks) = pull_request_urls
              /\ \A k \in DOMAIN ctasks :
                    ctasks[k].state = "DONE" => ctasks[k].result.group_name = pull_request_urls[k]
        /\ pc = "phase1_joined" => NamesOf(completions) = pull_request_urls
        /\ Projected => UrlsOf(pulls_report) = pull_request_urls
        /\ pc = "phase2" =>
              /\ Len(ctasks[1].data.messages) = Len(pulls_report) + 2
              /\ \A k \in DOMAIN pulls_report :
                    ctasks[1].data.messages[k + 1] =
                        [role |-> "assistant", content |-> pulls_report[k].analysis]
        /\ pc = "done" => UrlsOf(stdout[1].pulls) = pull_request_urls

\* The second answer of phase 1 has arrived before the first.
C26_Witness ==
    /\ pc = "phase1"
    /\ Len(pull_request_urls) = 2
    /\ DistinctUrls
    /\ Running(ctasks[1])
    /\ ctasks[2].state = "DONE"
    /\ ctasks[2].result.group_name = pull_request_urls[2]

Fails(i) ==
    /\ i \in DOMAIN ctasks'
    /\ ctasks[i].state = "SENDING"
    /\ ctasks'[i].state = "FAILED"

\* C27: the step in which a completion task gets a status that is neither
\* 200 nor 500 ends the batch at once, whatever its siblings are doing: the
\* run has failed with the RuntimeError of that status, the session is
\* closed, a sibling that had not returned is cancelled without a result, a
\* sibling that had returned keeps its result but the results handed to the
\* caller, the pulls report and the output stay as they were; nothing happens
\* after a failure, so they stay so for ever; and with a failed task the
\* caller holds no result of any task of that batch.
C27_FailFastJoin ==
    /\ [][\A i \in DOMAIN ctasks :
            Fails(i) =>
               /\ pc' = "failed"
               /\ error' = RuntimeError(ctasks'[i].status_code)
               /\ ~IsSuccess(ctasks'[i].status_code)
               /\ ~IsOverloaded(ctasks'[i].status_code)
               /\ session' = NoSession
               /\ completions' = completions
               /\ pulls_report' = pulls_report
               /\ stdout' = stdout
               /\ \A j \in DOMAIN ctasks \ {i} :
                    IF ctasks[j].state = "DONE"
                    THEN ctasks'[j] = ctasks[j]
                    ELSE ctasks'[j].state = "CANCELLED" /\ ctasks'[j].result = <<>>]_vars
    /\ [][pc # "failed"]_vars
    /\ []((\E i \in DOMAIN ctasks : ctasks[i].state = "FAILED") =>
            /\ pc = "failed"
            /\ sessions["phase2"] = 0 => completions = <<>>
            /\ \A k \in DOMAIN completions : \A j \in DOMAIN ctasks :
                  completions[k].group_name # ctasks[j].group_name)

\* The batch of phase 1 has failed on its second task while the first was in
\* flight.
C27_Witness ==
    /\ pc = "failed"
    /\ Len(ctasks) = 2
    /\ ctasks[2].state = "FAILED"
    /\ ctasks[1].state = "CANCELLED"
    /\ completions = <<>>

====
